---- MODULE Spec2Model ----
(***************************************************************************)
(* Dirichlet-process-discrete component model                              *)
(* (include/distributions/models/dpd.hpp): the Mixture's group array and   *)
(* its incrementally maintained cache of log scores, the per-group Scorer, *)
(* and the caller's accumulation buffer.                                   *)
(*                                                                         *)
(* Numbers.  A float that holds an ordinary quantity (alpha, betas[v],     *)
(* alpha*betas[v] + count, a probability) is an exact reduced fraction     *)
(* <<n, d>>.  A float that holds a logarithm is the record [exp |-> x]     *)
(* whose field is the fraction x with value = log(x): fast_log(x) builds   *)
(* it, the literal 0.0 is log(1), and adding or subtracting logarithms     *)
(* multiplies or divides the fractions.  Floating-point rounding is not    *)
(* modelled.  Vectors are functions on 0..n-1, as indexed in the source.   *)
(***************************************************************************)
EXTENDS Integers, Sequences, FiniteSets, Bags, TLC

\* ------------------------------------------------------------------ bounds
Dim == 2            \* shared.betas.size()
MaxGroups == 3      \* largest groups.size() explored
MaxCount == 2       \* largest number of observations held by all groups
MaxScoreCalls == 2  \* score_value calls on one accumulation buffer
MaxExternal == 1    \* direct mutations of groups between two init calls

\* --------------------------------------------------------- exact fractions
RECURSIVE GCD(_, _)
GCD(a, b) ==
    IF b = 0 THEN a ELSE GCD(b, a % b)

Frac(n, d) ==
    LET g == GCD(n, d) IN <<n \div g, d \div g>>

FAdd(a, b) ==
    Frac(a[1] * b[2] + b[1] * a[2], a[2] * b[2])

FMul(a, b) ==
    Frac(a[1] * b[1], a[2] * b[2])

FDiv(a, b) ==
    Frac(a[1] * b[2], a[2] * b[1])

FromInt(n) ==
    <<n, 1>>

\* ------------------------------------------------- scalar / vector kernels
\* the float literal 0 stored in a cell that is read as a logarithm
FloatZero ==
    [exp |-> <<1, 1>>]

fast_log(x) ==
    [exp |-> x]

\* accum + a - b on logarithms
AddSubtract(accum, a, b) ==
    [exp |-> FDiv(FMul(accum.exp, a.exp), b.exp)]

VSize(vec) ==
    Cardinality(DOMAIN vec)

\* std::vector::resize(n, fill): keeps the first n elements, appends fill
Resize(vec, n, fill) ==
    [i \in 0..(n - 1) |-> IF i \in DOMAIN vec THEN vec[i] ELSE fill]

Back(vec) ==
    vec[VSize(vec) - 1]

\* elementwise natural log over the first size entries, in place
vector_log(size, data) ==
    [i \in DOMAIN data |-> IF i < size THEN fast_log(data[i]) ELSE data[i]]

\* accum[i] += a[i] - b[i] over the first size entries
vector_add_subtract(size, accum, a, b) ==
    [i \in DOMAIN accum |->
        IF i < size THEN AddSubtract(accum[i], a[i], b[i]) ELSE accum[i]]

\* ------------------------------------------------------------ SparseCounter
\* map holds the present keys only (count > 0); total is kept separately
SparseCounter_clear ==
    [map |-> [k \in {} |-> 0], total |-> 0]

SparseCounter_get_count(c, key) ==
    IF key \in DOMAIN c.map THEN c.map[key] ELSE 0

SparseCounter_get_total(c) ==
    c.total

SparseCounter_add(c, key) ==
    [map |-> [k \in (DOMAIN c.map) \cup {key} |->
                 IF k = key THEN SparseCounter_get_count(c, key) + 1
                            ELSE c.map[k]],
     total |-> c.total + 1]

\* requires key present; a key whose count drops to zero is erased
SparseCounter_remove(c, key) ==
    LET new_value == c.map[key] - 1
        keys == IF new_value = 0 THEN (DOMAIN c.map) \ {key} ELSE DOMAIN c.map
    IN [map |-> [k \in keys |-> IF k = key THEN new_value ELSE c.map[k]],
        total |-> c.total - 1]

\* adds every (key, count) of other into c
SparseCounter_merge(c, other) ==
    [map |-> [k \in (DOMAIN c.map) \cup (DOMAIN other.map) |->
                 SparseCounter_get_count(c, k)
                     + SparseCounter_get_count(other, k)],
     total |-> c.total + other.total]

\* -------------------------------------------------------------------- Group
Group_init ==
    [counts |-> SparseCounter_clear]

\* add_value that counts the value twice
Group_add_value_twice(group, value) ==
    [counts |-> SparseCounter_add(SparseCounter_add(group.counts, value),
                                  value)]

Group_add_value(group, value) ==
    [counts |-> SparseCounter_add(group.counts, value)]

Group_remove_value(group, value) ==
    [counts |-> SparseCounter_remove(group.counts, value)]

\* merge that replaces the counts of the keys both groups hold
Group_merge_overwrite(group, source) ==
    [counts |->
        [map |-> [k \in (DOMAIN group.counts.map)
                           \cup (DOMAIN source.counts.map) |->
                     IF k \in DOMAIN source.counts.map
                     THEN source.counts.map[k] ELSE group.counts.map[k]],
         total |-> group.counts.total + source.counts.total]]

Group_merge(group, source) ==
    [counts |-> SparseCounter_merge(group.counts, source.counts)]

\* ------------------------------------------------------------------- Shared
Values == 0..(Dim - 1)

UniformBetas ==
    [v \in Values |-> Frac(1, Dim)]

\* unequal weights that sum to 3/4, leaving beta0 = 1/4
SkewedBetas ==
    [v \in Values |-> Frac(3 * (v + 1), 2 * Dim * (Dim + 1))]

SharedSet ==
    {[gamma |-> <<1, 2>>, alpha |-> <<1, 2>>, beta0 |-> <<0, 1>>,
      betas |-> UniformBetas],
     [gamma |-> <<1, 2>>, alpha |-> <<1, 1>>, beta0 |-> <<1, 4>>,
      betas |-> SkewedBetas]}

\* ------------------------------------------------------------------- Scorer
\* Scorer::init that adds the raw counts, without counts_scale
Scorer_init_unscaled(sh, group) ==
    LET size == VSize(sh.betas)
        total == SparseCounter_get_total(group.counts)
        betas_scale == FDiv(sh.alpha, FAdd(sh.alpha, FromInt(total)))
    IN [i \in 0..(size - 1) |->
           IF i \in DOMAIN group.counts.map
           THEN FAdd(FMul(betas_scale, sh.betas[i]),
                     FromInt(group.counts.map[i]))
           ELSE FMul(betas_scale, sh.betas[i])]

\* Scorer::init that scales the prior weights by alpha / (alpha + total + 1)
Scorer_init_shifted(sh, group) ==
    LET size == VSize(sh.betas)
        total == SparseCounter_get_total(group.counts)
        betas_scale == FDiv(sh.alpha, FAdd(sh.alpha, FromInt(total + 1)))
        counts_scale == FDiv(FromInt(1), FAdd(sh.alpha, FromInt(total)))
    IN [i \in 0..(size - 1) |->
           IF i \in DOMAIN group.counts.map
           THEN FAdd(FMul(betas_scale, sh.betas[i]),
                     FMul(counts_scale, FromInt(group.counts.map[i])))
           ELSE FMul(betas_scale, sh.betas[i])]

Scorer_init(sh, group) ==
    LET size == VSize(sh.betas)
        total == SparseCounter_get_total(group.counts)
        betas_scale == FDiv(sh.alpha, FAdd(sh.alpha, FromInt(total)))
        counts_scale == FDiv(FromInt(1), FAdd(sh.alpha, FromInt(total)))
    IN [i \in 0..(size - 1) |->
           IF i \in DOMAIN group.counts.map
           THEN FAdd(FMul(betas_scale, sh.betas[i]),
                     FMul(counts_scale, FromInt(group.counts.map[i])))
           ELSE FMul(betas_scale, sh.betas[i])]

Scorer_eval(scorer_scores, value) ==
    fast_log(scorer_scores[value])

\* ------------------------------------------------------------------ Mixture
VARIABLES shared, groups, scores, scores_shift, scores_accum,
          synced, external_ops, score_calls, last

vars == <<shared, groups, scores, scores_shift, scores_accum,
          synced, external_ops, score_calls, last>>

Mix == [groups |-> groups, scores |-> scores, scores_shift |-> scores_shift]

\* a call that returned: its arguments and the primitives of the random
\* source it invoked, in order (none for every operation but sampling)
Call(op, g, v) == [op |-> op, groupid |-> g, value |-> v, draws |-> <<>>]

NoArg == 0 - 1

EmptyVec == [i \in {} |-> FloatZero]

\* init that fills only the entries the resize appended
Mixture_init_keep_old(M, sh) ==
    LET dim == VSize(sh.betas)
        group_count == VSize(M.groups)
    IN [groups |-> M.groups,
        scores |-> [value \in 0..(dim - 1) |->
                       [groupid \in 0..(group_count - 1) |->
                           IF value \in DOMAIN M.scores
                              /\ groupid \in DOMAIN M.scores[value]
                           THEN M.scores[value][groupid]
                           ELSE fast_log(FAdd(FMul(sh.alpha, sh.betas[value]),
                                    FromInt(SparseCounter_get_count(
                                        M.groups[groupid].counts, value))))]],
        scores_shift |-> [groupid \in 0..(group_count - 1) |->
                             IF groupid \in DOMAIN M.scores_shift
                             THEN M.scores_shift[groupid]
                             ELSE fast_log(FAdd(sh.alpha,
                                      FromInt(SparseCounter_get_total(
                                          M.groups[groupid].counts))))]]

Mixture_init(M, sh) ==
    LET dim == VSize(sh.betas)
        group_count == VSize(M.groups)
        shift0 == Resize(M.scores_shift, group_count, FloatZero)
        rows0 == Resize(M.scores, dim, EmptyVec)
        rows1 == [value \in DOMAIN rows0 |->
                     Resize(rows0[value], group_count, FloatZero)]
        rows2 == [value \in DOMAIN rows1 |->
                     [groupid \in DOMAIN rows1[value] |->
                         FAdd(FMul(sh.alpha, sh.betas[value]),
                              FromInt(SparseCounter_get_count(
                                  M.groups[groupid].counts, value)))]]
        shift1 == [groupid \in DOMAIN shift0 |->
                     FAdd(sh.alpha,
                          FromInt(SparseCounter_get_total(
                              M.groups[groupid].counts)))]
    IN [groups |-> M.groups,
        scores |-> [value \in DOMAIN rows2 |->
                       vector_log(group_count, rows2[value])],
        scores_shift |-> vector_log(group_count, shift1)]

\* add_group that scores the new column for an empty group
Mixture_add_group_scored(M, sh) ==
    LET dim == VSize(sh.betas)
        group_count == VSize(M.groups) + 1
    IN [groups |-> Resize(M.groups, group_count, Group_init),
        scores |-> [value \in DOMAIN M.scores |->
                       Resize(M.scores[value], group_count,
                              fast_log(FMul(sh.alpha, sh.betas[value])))],
        scores_shift |-> Resize(M.scores_shift, group_count,
                                fast_log(sh.alpha))]

Mixture_add_group(M, sh) ==
    LET dim == VSize(sh.betas)
        group_count == VSize(M.groups) + 1
        resized == Resize(M.groups, group_count, Group_init)
    IN [groups |-> [resized EXCEPT ![group_count - 1] = Group_init],
        scores |-> [value \in DOMAIN M.scores |->
                       IF value < dim
                       THEN Resize(M.scores[value], group_count, FloatZero)
                       ELSE M.scores[value]],
        scores_shift |-> Resize(M.scores_shift, group_count, FloatZero)]

\* remove_group that erases slot groupid and shifts the later slots down
Mixture_remove_group_erase(M, sh, groupid) ==
    LET group_count == VSize(M.groups) - 1
        Erase(vec) == [i \in 0..(group_count - 1) |->
                          IF i < groupid THEN vec[i] ELSE vec[i + 1]]
    IN [groups |-> Erase(M.groups),
        scores |-> [value \in DOMAIN M.scores |-> Erase(M.scores[value])],
        scores_shift |-> Erase(M.scores_shift)]

\* remove_group that forgets to shrink scores_shift
Mixture_remove_group_keep_shift(M, sh, groupid) ==
    LET dim == VSize(sh.betas)
        group_count == VSize(M.groups) - 1
        moved == IF groupid # group_count
                 THEN [M.scores_shift EXCEPT ![groupid] = Back(M.scores_shift)]
                 ELSE M.scores_shift
    IN [groups |-> Resize([M.groups EXCEPT ![groupid] = Back(M.groups)],
                          group_count, Group_init),
        scores |-> [value \in DOMAIN M.scores |->
                       Resize([M.scores[value] EXCEPT
                                  ![groupid] = Back(M.scores[value])],
                              group_count, FloatZero)],
        scores_shift |-> moved]

\* remove_group that rebuilds the cache after the swap
Mixture_remove_group_reinit(M, sh, groupid) ==
    LET group_count == VSize(M.groups) - 1
    IN Mixture_init(
           [groups |-> Resize([M.groups EXCEPT ![groupid] = Back(M.groups)],
                              group_count, Group_init),
            scores |-> M.scores,
            scores_shift |-> M.scores_shift], sh)

Mixture_remove_group(M, sh, groupid) ==
    LET dim == VSize(sh.betas)
        group_count == VSize(M.groups) - 1
        swapped ==
            IF groupid # group_count
            THEN [groups |-> [M.groups EXCEPT
                                 ![groupid] = Back(M.groups),
                                 ![group_count] = M.groups[groupid]],
                  scores |-> [value \in DOMAIN M.scores |->
                                 IF value < dim
                                 THEN [M.scores[value] EXCEPT
                                          ![groupid] = Back(M.scores[value])]
                                 ELSE M.scores[value]],
                  scores_shift |-> [M.scores_shift EXCEPT
                                       ![groupid] = Back(M.scores_shift)]]
            ELSE M
    IN [groups |-> Resize(swapped.groups, group_count, Group_init),
        scores |-> [value \in DOMAIN swapped.scores |->
                       IF value < dim
                       THEN Resize(swapped.scores[value], group_count, FloatZero)
                       ELSE swapped.scores[value]],
        scores_shift |-> Resize(swapped.scores_shift, group_count, FloatZero)]

\* add_value that rewrites the whole scores[value] row
Mixture_add_value_row(M, sh, groupid, value) ==
    LET group == Group_add_value(M.groups[groupid], value)
        count == SparseCounter_get_count(group.counts, value)
        count_sum == SparseCounter_get_total(group.counts)
    IN [groups |-> [M.groups EXCEPT ![groupid] = group],
        scores |-> [M.scores EXCEPT ![value] =
                       [g \in DOMAIN M.scores[value] |->
                           fast_log(FAdd(FMul(sh.alpha, sh.betas[value]),
                                         FromInt(count)))]],
        scores_shift |-> [M.scores_shift EXCEPT ![groupid] =
                             fast_log(FAdd(sh.alpha, FromInt(count_sum)))]]

Mixture_add_value(M, sh, groupid, value) ==
    LET group == Group_add_value(M.groups[groupid], value)
        count == SparseCounter_get_count(group.counts, value)
        count_sum == SparseCounter_get_total(group.counts)
    IN [groups |-> [M.groups EXCEPT ![groupid] = group],
        scores |-> [M.scores EXCEPT ![value][groupid] =
                       fast_log(FAdd(FMul(sh.alpha, sh.betas[value]),
                                     FromInt(count)))],
        scores_shift |-> [M.scores_shift EXCEPT ![groupid] =
                             fast_log(FAdd(sh.alpha, FromInt(count_sum)))]]

Mixture_remove_value(M, sh, groupid, value) ==
    LET group == Group_remove_value(M.groups[groupid], value)
        count == SparseCounter_get_count(group.counts, value)
        count_sum == SparseCounter_get_total(group.counts)
    IN [groups |-> [M.groups EXCEPT ![groupid] = group],
        scores |-> [M.scores EXCEPT ![value][groupid] =
                       fast_log(FAdd(FMul(sh.alpha, sh.betas[value]),
                                     FromInt(count)))],
        scores_shift |-> [M.scores_shift EXCEPT ![groupid] =
                             fast_log(FAdd(sh.alpha, FromInt(count_sum)))]]

\* score_value that overwrites the buffer instead of accumulating
Mixture_score_value_reset(M, sh, value, accum) ==
    LET group_count == VSize(M.groups)
    IN vector_add_subtract(group_count,
                           [g \in DOMAIN accum |-> FloatZero],
                           M.scores[value], M.scores_shift)

Mixture_score_value(M, sh, value, accum) ==
    LET group_count == VSize(M.groups)
    IN vector_add_subtract(group_count, accum, M.scores[value], M.scores_shift)

\* ------------------------------------------------------------------ actions
\* The owner of the Mixture: it may mutate the public groups array directly
\* (which leaves the cache stale until the next init), call the Mixture's
\* mutators once init has run, and run batched queries on a buffer it
\* allocates for the query and releases before the next structural change.
Init ==
    /\ shared \in SharedSet
    /\ groups = [i \in {} |-> Group_init]
    /\ scores = [i \in {} |-> EmptyVec]
    /\ scores_shift = EmptyVec
    /\ scores_accum = EmptyVec
    /\ synced = FALSE
    /\ external_ops = 0
    /\ score_calls = 0
    /\ last = Call("construct", NoArg, NoArg)

SetMix(M) ==
    /\ groups' = M.groups
    /\ scores' = M.scores
    /\ scores_shift' = M.scores_shift

\* observations held by the first n groups
RECURSIVE Observations(_, _)
Observations(gs, n) ==
    IF n = 0 THEN 0
    ELSE SparseCounter_get_total(gs[n - 1].counts) + Observations(gs, n - 1)

BufferReleased ==
    scores_accum = EmptyVec /\ score_calls = 0

\* the owner resizes the public groups array directly
GroupsResize(n) ==
    /\ BufferReleased
    /\ external_ops < MaxExternal
    /\ n # VSize(groups)
    /\ groups' = Resize(groups, n, Group_init)
    /\ synced' = FALSE
    /\ external_ops' = external_ops + 1
    /\ last' = Call("groups.resize", NoArg, NoArg)
    /\ UNCHANGED <<shared, scores, scores_shift, scores_accum, score_calls>>

\* the owner adds a value to a group without going through the Mixture
GroupAddValue(groupid, value) ==
    /\ BufferReleased
    /\ external_ops < MaxExternal
    /\ groupid \in DOMAIN groups
    /\ Observations(groups, VSize(groups)) < MaxCount
    /\ groups' = [groups EXCEPT ![groupid] = Group_add_value(@, value)]
    /\ synced' = FALSE
    /\ external_ops' = external_ops + 1
    /\ last' = Call("Group.add_value", groupid, value)
    /\ UNCHANGED <<shared, scores, scores_shift, scores_accum, score_calls>>

\* the owner re-initializes a group without going through the Mixture
OwnerGroupInit(groupid) ==
    /\ BufferReleased
    /\ external_ops < MaxExternal
    /\ groupid \in DOMAIN groups
    /\ groups' = [groups EXCEPT ![groupid] = Group_init]
    /\ synced' = FALSE
    /\ external_ops' = external_ops + 1
    /\ last' = Call("Group.init", groupid, NoArg)
    /\ UNCHANGED <<shared, scores, scores_shift, scores_accum, score_calls>>

\* the owner removes a value from a group without going through the Mixture
OwnerGroupRemove(groupid, value) ==
    /\ BufferReleased
    /\ external_ops < MaxExternal
    /\ groupid \in DOMAIN groups
    /\ SparseCounter_get_count(groups[groupid].counts, value) > 0
    /\ groups' = [groups EXCEPT ![groupid] = Group_remove_value(@, value)]
    /\ synced' = FALSE
    /\ external_ops' = external_ops + 1
    /\ last' = Call("Group.remove_value", groupid, value)
    /\ UNCHANGED <<shared, scores, scores_shift, scores_accum, score_calls>>

\* the owner merges one group of the Mixture into another
OwnerGroupMerge(groupid, source) ==
    /\ BufferReleased
    /\ external_ops < MaxExternal
    /\ groupid \in DOMAIN groups
    /\ source \in DOMAIN groups
    /\ groupid # source
    /\ Observations(groups, VSize(groups))
           + SparseCounter_get_total(groups[source].counts) <= MaxCount
    /\ groups' = [groups EXCEPT ![groupid] = Group_merge(@, groups[source])]
    /\ synced' = FALSE
    /\ external_ops' = external_ops + 1
    /\ last' = [op |-> "Group.merge", groupid |-> groupid, value |-> NoArg,
                source |-> source, draws |-> <<>>]
    /\ UNCHANGED <<shared, scores, scores_shift, scores_accum, score_calls>>

MixtureInit ==
    /\ BufferReleased
    /\ SetMix(Mixture_init(Mix, shared))
    /\ synced' = TRUE
    /\ external_ops' = 0
    /\ last' = Call("init", NoArg, NoArg)
    /\ UNCHANGED <<shared, scores_accum, score_calls>>

MixtureAddGroup ==
    /\ synced
    /\ BufferReleased
    /\ VSize(groups) < MaxGroups
    /\ SetMix(Mixture_add_group(Mix, shared))
    /\ last' = Call("add_group", VSize(groups), NoArg)
    /\ UNCHANGED <<shared, scores_accum, synced, external_ops, score_calls>>

MixtureRemoveGroup(groupid) ==
    /\ synced
    /\ BufferReleased
    /\ groupid < VSize(groups)
    /\ SetMix(Mixture_remove_group(Mix, shared, groupid))
    /\ last' = Call("remove_group", groupid, NoArg)
    /\ UNCHANGED <<shared, scores_accum, synced, external_ops, score_calls>>

MixtureAddValue(groupid, value) ==
    /\ synced
    /\ BufferReleased
    /\ groupid < VSize(groups)
    /\ value < VSize(shared.betas)
    /\ Observations(groups, VSize(groups)) < MaxCount
    /\ SetMix(Mixture_add_value(Mix, shared, groupid, value))
    /\ last' = Call("add_value", groupid, value)
    /\ UNCHANGED <<shared, scores_accum, synced, external_ops, score_calls>>

MixtureRemoveValue(groupid, value) ==
    /\ synced
    /\ BufferReleased
    /\ groupid < VSize(groups)
    /\ value < VSize(shared.betas)
    /\ SparseCounter_get_count(groups[groupid].counts, value) > 0
    /\ SetMix(Mixture_remove_value(Mix, shared, groupid, value))
    /\ last' = Call("remove_value", groupid, value)
    /\ UNCHANGED <<shared, scores_accum, synced, external_ops, score_calls>>

\* the caller supplies a zero-initialized buffer, one entry per group
AccumAlloc ==
    /\ synced
    /\ BufferReleased
    /\ last.op # "accum.alloc"
    /\ scores_accum' = [g \in DOMAIN groups |-> FloatZero]
    /\ score_calls' = 0
    /\ last' = Call("accum.alloc", NoArg, NoArg)
    /\ UNCHANGED <<shared, groups, scores, scores_shift, synced, external_ops>>

MixtureScoreValue(value) ==
    /\ synced
    /\ last.op \in {"accum.alloc", "score_value"}
    /\ value < VSize(shared.betas)
    /\ VSize(scores_accum) = VSize(groups)
    /\ score_calls < MaxScoreCalls
    /\ scores_accum' = Mixture_score_value(Mix, shared, value, scores_accum)
    /\ score_calls' = score_calls + 1
    /\ last' = Call("score_value", NoArg, value)
    /\ UNCHANGED <<shared, groups, scores, scores_shift, synced, external_ops>>

\* the caller is done with the buffer
AccumRelease ==
    /\ last.op \in {"accum.alloc", "score_value"}
    /\ scores_accum' = EmptyVec
    /\ score_calls' = 0
    /\ last' = Call("accum.release", NoArg, NoArg)
    /\ UNCHANGED <<shared, groups, scores, scores_shift, synced, external_ops>>

\* ----------------------------------------------------------------- Sampler
\* Sampler::init: the concentration buffer handed to sample_dirichlet.  The
\* primitive overwrites it with probabilities, which are not modelled: the
\* value sample_discrete then draws is any index of the buffer.
\* Sampler::init without the entry for the "other" bucket
Sampler_init_no_other(sh, group) ==
    LET pushed == [i \in 0..(VSize(sh.betas) - 1) |->
                      FMul(sh.betas[i], sh.alpha)]
        probs == [i \in DOMAIN pushed |->
                     IF i \in DOMAIN group.counts.map
                     THEN FAdd(pushed[i], FromInt(group.counts.map[i]))
                     ELSE pushed[i]]
    IN [probs |-> probs,
        draws |-> <<[prim |-> "sample_dirichlet", dim |-> VSize(probs)]>>]

Sampler_init(sh, group) ==
    LET pushed == [i \in 0..(VSize(sh.betas) - 1) |->
                      FMul(sh.betas[i], sh.alpha)]
        counted == [i \in DOMAIN pushed |->
                       IF i \in DOMAIN group.counts.map
                       THEN FAdd(pushed[i], FromInt(group.counts.map[i]))
                       ELSE pushed[i]]
        probs == Resize(counted, VSize(counted) + 1, FMul(sh.beta0, sh.alpha))
    IN [probs |-> probs,
        draws |-> <<[prim |-> "sample_dirichlet", dim |-> VSize(probs)]>>]

Sampler_eval(sampler) ==
    [results |-> 0..(VSize(sampler.probs) - 1),
     draws |-> <<[prim |-> "sample_discrete", dim |-> VSize(sampler.probs)]>>]

\* sample_value that draws the value before sampling the weights
sample_value_reordered(sh, group) ==
    LET sampler == Sampler_init(sh, group)
        drawn == Sampler_eval(sampler)
    IN [concentrations |-> sampler.probs,
        results |-> drawn.results,
        draws |-> drawn.draws \o sampler.draws]

sample_value(sh, group) ==
    LET sampler == Sampler_init(sh, group)
        drawn == Sampler_eval(sampler)
    IN [concentrations |-> sampler.probs,
        results |-> drawn.results,
        draws |-> sampler.draws \o drawn.draws]

\* the single-group score_value
score_value(sh, group, value) ==
    Scorer_eval(Scorer_init(sh, group), value)

\* ------------------------------------------------------------- score_group
\* A float that holds a sum of log-gamma values is the formal sum of its
\* terms: a function from the arguments x to the nonzero integer
\* coefficients of fast_lgamma(x).  The float 0 is the empty sum.
LgZero ==
    [x \in {} |-> 0]

\* score + c * fast_lgamma(x)
LgPlus(score, x, c) ==
    LET old == IF x \in DOMAIN score THEN score[x] ELSE 0
        keys == IF old + c = 0 THEN (DOMAIN score) \ {x}
                               ELSE (DOMAIN score) \cup {x}
    IN [y \in keys |-> IF y = x THEN old + c ELSE score[y]]

RECURSIVE score_group_loop(_, _, _, _)
score_group_loop(sh, group, keys, score) ==
    IF keys = {} THEN score
    ELSE LET value == CHOOSE k \in keys : \A k2 \in keys : k <= k2
             prior_i == FMul(sh.betas[value], sh.alpha)
             next == LgPlus(LgPlus(score,
                                   FAdd(prior_i,
                                        FromInt(group.counts.map[value])), 1),
                            prior_i, 0 - 1)
         IN score_group_loop(sh, group, keys \ {value}, next)

\* score_group without the - fast_lgamma(alpha + total) term
score_group_no_total(sh, group) ==
    LET score == score_group_loop(sh, group, DOMAIN group.counts.map, LgZero)
    IN LgPlus(score, sh.alpha, 1)

score_group(sh, group) ==
    LET total == SparseCounter_get_total(group.counts)
        score == score_group_loop(sh, group, DOMAIN group.counts.map, LgZero)
    IN LgPlus(LgPlus(score, sh.alpha, 1),
              FAdd(sh.alpha, FromInt(total)), 0 - 1)

\* ------------------------------------------------------------------ queries
\* The owner calls the free functions on a group right after init, or on
\* groups that no Mixture cache mirrors yet.
QueryPoint ==
    last.op = "init" \/ DOMAIN scores = {}

Returned(op, g, v, result, draws) ==
    [op |-> op, groupid |-> g, value |-> v, result |-> result,
     draws |-> draws]

ScoreValue(groupid, value) ==
    /\ QueryPoint
    /\ groupid \in DOMAIN groups
    /\ value < VSize(shared.betas)
    /\ last' = Returned("score_value.group", groupid, value,
                        score_value(shared, groups[groupid], value), <<>>)
    /\ UNCHANGED <<shared, groups, scores, scores_shift, scores_accum,
                   synced, external_ops, score_calls>>

ScoreGroup(groupid) ==
    /\ QueryPoint
    /\ groupid \in DOMAIN groups
    /\ last' = Returned("score_group", groupid, NoArg,
                        score_group(shared, groups[groupid]), <<>>)
    /\ UNCHANGED <<shared, groups, scores, scores_shift, scores_accum,
                   synced, external_ops, score_calls>>

SampleValue(groupid) ==
    /\ QueryPoint
    /\ groupid \in DOMAIN groups
    /\ LET sampled == sample_value(shared, groups[groupid])
       IN \E r \in sampled.results :
              last' = [op |-> "sample_value", groupid |-> groupid,
                       value |-> NoArg, result |-> r,
                       concentrations |-> sampled.concentrations,
                       draws |-> sampled.draws]
    /\ UNCHANGED <<shared, groups, scores, scores_shift, scores_accum,
                   synced, external_ops, score_calls>>

Next ==
    \/ \E n \in 0..MaxGroups : GroupsResize(n)
    \/ \E g \in 0..(MaxGroups - 1), v \in Values : GroupAddValue(g, v)
    \/ MixtureInit
    \/ MixtureAddGroup
    \/ \E g \in 0..(MaxGroups - 1) : MixtureRemoveGroup(g)
    \/ \E g \in 0..(MaxGroups - 1), v \in Values : MixtureAddValue(g, v)
    \/ \E g \in 0..(MaxGroups - 1), v \in Values : MixtureRemoveValue(g, v)
    \/ AccumAlloc
    \/ \E v \in Values : MixtureScoreValue(v)
    \/ AccumRelease
    \/ \E g \in 0..(MaxGroups - 1) : OwnerGroupInit(g)
    \/ \E g \in 0..(MaxGroups - 1), v \in Values : OwnerGroupRemove(g, v)
    \/ \E g \in 0..(MaxGroups - 1), h \in 0..(MaxGroups - 1) :
           OwnerGroupMerge(g, h)
    \/ \E g \in 0..(MaxGroups - 1), v \in Values : ScoreValue(g, v)
    \/ \E g \in 0..(MaxGroups - 1) : ScoreGroup(g)
    \/ \E g \in 0..(MaxGroups - 1) : SampleValue(g)

Spec == Init /\ [][Next]_vars

TypeOK ==
    /\ synced \in BOOLEAN
    /\ score_calls \in 0..MaxScoreCalls
    /\ external_ops \in 0..MaxExternal
    /\ VSize(groups) <= MaxGroups

\* ------------------------------------------------- closed forms of the cache
CountOf(group, v) ==
    IF v \in DOMAIN group.counts.map THEN group.counts.map[v] ELSE 0

TotalOf(group) ==
    group.counts.total

\* log(alpha*betas[v] + counts[v])
ExpectedScore(sh, group, v) ==
    [exp |-> Frac(sh.alpha[1] * sh.betas[v][1]
                    + CountOf(group, v) * sh.alpha[2] * sh.betas[v][2],
                  sh.alpha[2] * sh.betas[v][2])]

\* log(alpha + total)
ExpectedShift(sh, group) ==
    [exp |-> Frac(sh.alpha[1] + TotalOf(group) * sh.alpha[2], sh.alpha[2])]

\* log((alpha*betas[v] + counts[v]) / (alpha + total))
ExpectedPredictive(sh, group, v) ==
    [exp |-> FDiv(ExpectedScore(sh, group, v).exp,
                  ExpectedShift(sh, group).exp)]

ZeroAccum(M) ==
    [g \in DOMAIN M.groups |-> FloatZero]

\* C1: after init and after every Mixture mutator, scores[v][g] equals
\* log(alpha*betas[v] + groups[g].counts[v]) and scores_shift[g] equals
\* log(alpha + groups[g].total) for every value v and active group g.
CacheEquivalence ==
    synced =>
        \A g \in DOMAIN groups :
            /\ scores_shift[g] = ExpectedShift(shared, groups[g])
            /\ \A v \in Values :
                   scores[v][g] = ExpectedScore(shared, groups[g], v)

\* C2: the g-th entry score_value(v, accum) produces from a zero accum equals
\* Scorer.init(groups[g]) followed by Scorer.eval(v), for every v and g.
BatchedEqualsPerGroup ==
    synced =>
        \A v \in Values : \A g \in DOMAIN groups :
            Mixture_score_value(Mix, shared, v, ZeroAccum(Mix))[g]
                = Scorer_eval(Scorer_init(shared, groups[g]), v)

\* C3: add_value(g, v) followed immediately by remove_value(g, v) restores
\* counts[v], the total, scores[v][g] and scores_shift[g] of group g.
RoundTripRestores ==
    synced =>
        \A g \in DOMAIN groups : \A v \in Values :
            LET added == Mixture_add_value(Mix, shared, g, v)
                back == Mixture_remove_value(added, shared, g, v)
            IN /\ CountOf(back.groups[g], v) = CountOf(groups[g], v)
               /\ TotalOf(back.groups[g]) = TotalOf(groups[g])
               /\ back.scores[v][g] = scores[v][g]
               /\ back.scores_shift[g] = scores_shift[g]

\* one group's slot: its histogram with its cache column and shift entry
Slot(M, g) ==
    <<M.groups[g], [v \in Values |-> M.scores[v][g]], M.scores_shift[g]>>

SlotBag(M) ==
    [s \in {Slot(M, g) : g \in DOMAIN M.groups} |->
        Cardinality({g \in DOMAIN M.groups : Slot(M, g) = s})]

\* C4: remove_group(g) with g not the last index shrinks the group count by
\* one, leaves slot g holding the former last group's histogram, scores
\* column and shift entry, and drops exactly the removed group's slot.
SwapRemoval ==
    [][(last'.op = "remove_group" /\ last'.groupid # VSize(groups) - 1) =>
        LET g == last'.groupid
            old_last == VSize(groups) - 1
        IN /\ VSize(groups') = VSize(groups) - 1
           /\ groups'[g] = groups[old_last]
           /\ \A v \in Values : scores'[v][g] = scores[v][old_last]
           /\ scores_shift'[g] = scores_shift[old_last]
           /\ SlotBag(Mix') = SlotBag(Mix) (-) SetToBag({Slot(Mix, g)})]_vars

SwapRemovalWitness ==
    /\ last.op = "remove_group"
    /\ last.groupid \in DOMAIN groups
    /\ TotalOf(groups[last.groupid]) > 0

\* C5: once init has run, scores has exactly dim rows and every scores[v]
\* is as long as scores_shift and as groups.
DimensionInvariant ==
    synced =>
        /\ DOMAIN scores = Values
        /\ DOMAIN scores_shift = DOMAIN groups
        /\ \A v \in Values : DOMAIN scores[v] = DOMAIN groups
        /\ DOMAIN groups = 0..(VSize(groups) - 1)

DimensionWitness ==
    /\ synced
    /\ last.op = "remove_group"
    /\ VSize(groups) >= 1

\* C6: after add_group creates group g and one add_value(g, v), score_value
\* from a zero accum yields log(alpha*betas[v'] + counts_g[v']) -
\* log(alpha + total_g) at g for every v', not only for v' = v.
NewGroupSafeAfterFirstAdd ==
    [][(/\ last.op = "add_group"
        /\ last'.op = "add_value"
        /\ last'.groupid = last.groupid) =>
        \A v \in Values :
            Mixture_score_value(Mix', shared, v, ZeroAccum(Mix'))[last.groupid]
                = ExpectedPredictive(shared, groups'[last.groupid], v)]_vars

\* C7: add_value(g, v) / remove_value(g, v) change counts[v] of group g by
\* +1 / -1 and its total likewise, and apart from that touch only
\* scores[v][g] and scores_shift[g].
ValueUpdateFrame ==
    [][(last'.op \in {"add_value", "remove_value"}) =>
        LET g == last'.groupid
            v == last'.value
            d == IF last'.op = "add_value" THEN 1 ELSE 0 - 1
        IN /\ DOMAIN groups' = DOMAIN groups
           /\ \A g2 \in DOMAIN groups : g2 # g => groups'[g2] = groups[g2]
           /\ CountOf(groups'[g], v) = CountOf(groups[g], v) + d
           /\ TotalOf(groups'[g]) = TotalOf(groups[g]) + d
           /\ \A v2 \in Values :
                  v2 # v => CountOf(groups'[g], v2) = CountOf(groups[g], v2)
           /\ DOMAIN scores' = DOMAIN scores
           /\ \A v2 \in Values :
                  /\ DOMAIN scores'[v2] = DOMAIN scores[v2]
                  /\ \A g2 \in DOMAIN groups :
                         <<v2, g2>> # <<v, g>> =>
                             scores'[v2][g2] = scores[v2][g2]
           /\ DOMAIN scores_shift' = DOMAIN scores_shift
           /\ \A g2 \in DOMAIN groups :
                  g2 # g => scores_shift'[g2] = scores_shift[g2]]_vars

ValueUpdateWitness ==
    /\ last.op = "remove_value"
    /\ VSize(groups) >= 2
    /\ \E g2 \in DOMAIN groups : g2 # last.groupid /\ TotalOf(groups[g2]) > 0

\* C8: score_value(v, accum) adds scores[v][g] - scores_shift[g] to the old
\* accum[g] of every active group (the buffer is not reset) and leaves
\* groups, scores and scores_shift unchanged.
ScoreValueAccumulates ==
    [][(last'.op = "score_value") =>
        /\ DOMAIN scores_accum' = DOMAIN scores_accum
        /\ \A g \in DOMAIN groups :
               scores_accum'[g].exp[1] * scores_accum[g].exp[2]
                       * scores[last'.value][g].exp[2] * scores_shift[g].exp[1]
                   = scores_accum'[g].exp[2] * scores_accum[g].exp[1]
                       * scores[last'.value][g].exp[1] * scores_shift[g].exp[2]
        /\ UNCHANGED <<groups, scores, scores_shift>>]_vars

ScoreValueWitness ==
    /\ last.op = "score_value"
    /\ score_calls = 2
    /\ \E g \in DOMAIN groups :
           TotalOf(groups[g]) > 0 /\ scores_accum[g] # FloatZero

\* C9: init rebuilds the whole cache from the groups array whatever the
\* cache held before, does not change any group, and is idempotent.
InitRebuilds ==
    [][(last'.op = "init") =>
        /\ groups' = groups
        /\ DOMAIN scores' = Values
        /\ DOMAIN scores_shift' = DOMAIN groups
        /\ \A v \in Values : DOMAIN scores'[v] = DOMAIN groups
        /\ \A g \in DOMAIN groups :
               /\ scores_shift'[g] = ExpectedShift(shared, groups[g])
               /\ \A v \in Values :
                      scores'[v][g] = ExpectedScore(shared, groups[g], v)
        /\ Mixture_init(Mix', shared) = Mix']_vars

InitRebuildsWitness ==
    /\ last.op = "init"
    /\ VSize(groups) >= 2
    /\ \E g \in DOMAIN groups : TotalOf(groups[g]) > 0

\* C10: add_group appends one empty group at index old group_count, extends
\* every scores[v] and scores_shift by one zero entry, and leaves all
\* earlier groups and their cache entries unchanged.
AddGroupAppends ==
    [][(last'.op = "add_group") =>
        LET n == VSize(groups)
        IN /\ DOMAIN groups' = 0..n
           /\ DOMAIN groups'[n].counts.map = {}
           /\ TotalOf(groups'[n]) = 0
           /\ DOMAIN scores' = DOMAIN scores
           /\ DOMAIN scores_shift' = 0..n
           /\ scores_shift'[n] = FloatZero
           /\ \A v \in Values :
                  /\ DOMAIN scores'[v] = 0..n
                  /\ scores'[v][n] = FloatZero
           /\ \A g \in DOMAIN groups :
                  /\ groups'[g] = groups[g]
                  /\ scores_shift'[g] = scores_shift[g]
                  /\ \A v \in Values : scores'[v][g] = scores[v][g]]_vars

AddGroupWitness ==
    /\ last.op = "add_group"
    /\ VSize(groups) >= 2
    /\ TotalOf(groups[0]) > 0

\* C17: remove_group(g) leaves every group at an index other than g and the
\* old last index where it was, with the same histogram, scores column and
\* scores_shift entry; with g the last index no surviving slot changes.
RemoveGroupFrame ==
    [][(last'.op = "remove_group") =>
        LET g == last'.groupid
            old_last == VSize(groups) - 1
        IN /\ DOMAIN groups' = 0..(old_last - 1)
           /\ \A i \in DOMAIN groups :
                  (i # g /\ i # old_last) =>
                      /\ groups'[i] = groups[i]
                      /\ scores_shift'[i] = scores_shift[i]
                      /\ \A v \in Values : scores'[v][i] = scores[v][i]
           /\ (g = old_last) =>
                  \A i \in DOMAIN groups' : Slot(Mix', i) = Slot(Mix, i)]_vars

RemoveGroupFrameWitness ==
    /\ last.op = "remove_group"
    /\ last.groupid = 0
    /\ VSize(groups) = 2
    /\ TotalOf(groups[1]) > 0

\* ------------------------------------------------------- standalone groups
\* Groups used outside a Mixture: the owner holds NumStandalone groups and
\* calls the Group operations and the free functions on them.
NumStandalone == 3   \* groups held
MaxGroupTotal == 2   \* largest total count of one standalone group

StandaloneInit ==
    /\ shared \in SharedSet
    /\ groups = [i \in 0..(NumStandalone - 1) |-> Group_init]
    /\ scores = [i \in {} |-> EmptyVec]
    /\ scores_shift = EmptyVec
    /\ scores_accum = EmptyVec
    /\ synced = FALSE
    /\ external_ops = 0
    /\ score_calls = 0
    /\ last = Call("construct", NoArg, NoArg)

MixtureUntouched ==
    UNCHANGED <<shared, scores, scores_shift, scores_accum,
                synced, external_ops, score_calls>>

GroupInitCall(groupid) ==
    /\ groupid \in DOMAIN groups
    /\ groups' = [groups EXCEPT ![groupid] = Group_init]
    /\ last' = Call("Group.init", groupid, NoArg)
    /\ MixtureUntouched

GroupAdd(groupid, value) ==
    /\ groupid \in DOMAIN groups
    /\ SparseCounter_get_total(groups[groupid].counts) < MaxGroupTotal
    /\ groups' = [groups EXCEPT ![groupid] = Group_add_value(@, value)]
    /\ last' = Call("Group.add_value", groupid, value)
    /\ MixtureUntouched

GroupRemove(groupid, value) ==
    /\ groupid \in DOMAIN groups
    /\ SparseCounter_get_count(groups[groupid].counts, value) > 0
    /\ groups' = [groups EXCEPT ![groupid] = Group_remove_value(@, value)]
    /\ last' = Call("Group.remove_value", groupid, value)
    /\ MixtureUntouched

GroupMerge(groupid, source) ==
    /\ groupid \in DOMAIN groups
    /\ source \in DOMAIN groups
    /\ groupid # source
    /\ SparseCounter_get_total(groups[groupid].counts)
           + SparseCounter_get_total(groups[source].counts) <= MaxGroupTotal
    /\ groups' = [groups EXCEPT ![groupid] = Group_merge(@, groups[source])]
    /\ last' = [op |-> "Group.merge", groupid |-> groupid, value |-> NoArg,
                source |-> source, draws |-> <<>>]
    /\ MixtureUntouched

RECURSIVE SumOver(_, _)
SumOver(f, S) ==
    IF S = {} THEN 0
    ELSE LET k == CHOOSE x \in S : TRUE IN f[k] + SumOver(f, S \ {k})

\* C11: in every group the total equals the sum of counts[v] over the
\* present values; init empties the group, add_value(v) raises counts[v] and
\* the total by exactly 1, remove_value(v) lowers both by exactly 1.
GroupStatistics ==
    [][/\ \A g \in DOMAIN groups' :
              TotalOf(groups'[g])
                  = SumOver(groups'[g].counts.map, DOMAIN groups'[g].counts.map)
       /\ (last'.op = "Group.init") =>
              /\ DOMAIN groups'[last'.groupid].counts.map = {}
              /\ TotalOf(groups'[last'.groupid]) = 0
       /\ (last'.op \in {"Group.add_value", "Group.remove_value"}) =>
              LET g == last'.groupid
                  v == last'.value
                  d == IF last'.op = "Group.add_value" THEN 1 ELSE 0 - 1
              IN /\ CountOf(groups'[g], v) = CountOf(groups[g], v) + d
                 /\ TotalOf(groups'[g]) = TotalOf(groups[g]) + d]_vars

GroupStatisticsWitness ==
    /\ last.op = "Group.remove_value"
    /\ CountOf(groups[last.groupid], last.value) = 1
    /\ TotalOf(groups[last.groupid]) = 1

\* C16: merging B into A and then A into C leaves in C the same value->count
\* mapping and total as merging B into C and then A into C, and a merge adds
\* the source's counts pointwise to the destination.
MergeAssociative ==
    \A a \in DOMAIN groups, b \in DOMAIN groups, c \in DOMAIN groups :
        LET A == groups[a]
            B == groups[b]
            C == groups[c]
            AB == Group_merge(A, B)
            left == Group_merge(C, AB)
            right == Group_merge(Group_merge(C, B), A)
        IN /\ left.counts.map = right.counts.map
           /\ TotalOf(left) = TotalOf(right)
           /\ TotalOf(AB) = TotalOf(A) + TotalOf(B)
           /\ \A v \in Values : CountOf(AB, v) = CountOf(A, v) + CountOf(B, v)

MergeAssociativeWitness ==
    /\ last.op = "Group.merge"
    /\ \A g \in DOMAIN groups : TotalOf(groups[g]) > 0
    /\ \E v \in Values :
           CountOf(groups[last.groupid], v) >= 2
               /\ CountOf(groups[last.source], v) >= 1

GroupNext ==
    \/ \E g \in 0..(NumStandalone - 1) : GroupInitCall(g)
    \/ \E g \in 0..(NumStandalone - 1), v \in Values : GroupAdd(g, v)
    \/ \E g \in 0..(NumStandalone - 1), v \in Values : GroupRemove(g, v)
    \/ \E g \in 0..(NumStandalone - 1), h \in 0..(NumStandalone - 1) :
           GroupMerge(g, h)
    \/ \E g \in 0..(NumStandalone - 1), v \in Values : ScoreValue(g, v)
    \/ \E g \in 0..(NumStandalone - 1) : ScoreGroup(g)
    \/ \E g \in 0..(NumStandalone - 1) : SampleValue(g)

GroupSpec == StandaloneInit /\ [][GroupNext]_vars

\* exact subtraction and summation of fractions
FSub(a, b) ==
    Frac(a[1] * b[2] - b[1] * a[2], a[2] * b[2])

RECURSIVE FSum(_, _)
FSum(f, n) ==
    IF n = 0 THEN <<0, 1>> ELSE FAdd(f[n - 1], FSum(f, n - 1))

\* dim=3, alpha=1, betas=[1/3,1/3,1/3], beta0=0; one observation of value 0
ExampleShared ==
    [gamma |-> <<1, 2>>, alpha |-> <<1, 1>>, beta0 |-> <<0, 1>>,
     betas |-> [v \in 0..2 |-> <<1, 3>>]]

ExampleGroup ==
    Group_add_value(Group_init, 0)

\* C14: after Scorer.init on a group, Scorer.eval(v) returns
\* log((alpha*betas[v] + counts[v]) / (alpha + total)); in the example
\* eval(0) = log(2/3) and eval(1) = log(1/6).
ScorerFormula ==
    /\ (last.op = "score_value.group") =>
           last.result
               = ExpectedPredictive(shared, groups[last.groupid], last.value)
    /\ score_value(ExampleShared, ExampleGroup, 0) = [exp |-> <<2, 3>>]
    /\ score_value(ExampleShared, ExampleGroup, 1) = [exp |-> <<1, 6>>]

ScorerFormulaWitness ==
    /\ last.op = "score_value.group"
    /\ CountOf(groups[last.groupid], last.value) >= 1
    /\ TotalOf(groups[last.groupid]) >= 2

\* C15: score_group on a group with no present values and total 0 returns
\* exactly 0, for any Shared.
EmptyGroupEvidence ==
    (/\ last.op = "score_group"
     /\ DOMAIN groups[last.groupid].counts.map = {}
     /\ TotalOf(groups[last.groupid]) = 0) =>
        last.result = LgZero

EmptyGroupEvidenceWitness ==
    /\ last.op = "score_group"
    /\ TotalOf(groups[last.groupid]) = 0
    /\ shared.beta0 # <<0, 1>>

\* C18: sample_value invokes the random source exactly twice, first one
\* Dirichlet sampling over dim+1 concentrations and then one discrete draw
\* over the same dim+1 buffer; every other operation invokes it not at all.
RandomDrawAccounting ==
    [][/\ (last'.op = "sample_value") =>
              last'.draws
                  = <<[prim |-> "sample_dirichlet", dim |-> Dim + 1],
                      [prim |-> "sample_discrete", dim |-> Dim + 1]>>
       /\ (last'.op # "sample_value") => last'.draws = <<>>]_vars

RandomDrawAccountingWitness ==
    /\ last.op = "sample_value"
    /\ synced
    /\ TotalOf(groups[last.groupid]) > 0

\* C19: the buffer Sampler.init hands to the Dirichlet primitive has dim+1
\* entries, entry v = alpha*betas[v] + counts[v] for v < dim and the last
\* entry alpha*beta0; the group is not modified.
SamplerConcentrations ==
    [][(last'.op = "sample_value") =>
        LET c == last'.concentrations
            group == groups[last'.groupid]
        IN /\ DOMAIN c = 0..Dim
           /\ \A v \in Values : c[v] = ExpectedScore(shared, group, v).exp
           /\ c[Dim] = Frac(shared.alpha[1] * shared.beta0[1],
                            shared.alpha[2] * shared.beta0[2])
           /\ groups' = groups]_vars

SamplerConcentrationsWitness ==
    /\ last.op = "sample_value"
    /\ TotalOf(groups[last.groupid]) > 0
    /\ \E v \in Values : CountOf(groups[last.groupid], v) = 0
    /\ shared.beta0 # <<0, 1>>

\* C20: the probabilities Scorer.init computes sum over v in [0,dim) to
\* (alpha*sum(betas) + total) / (alpha + total): 1 when beta0 = 0 and the
\* betas sum to 1, and 1 - alpha*beta0/(alpha + total) when the betas sum
\* to 1 - beta0.
ScorerNormalization ==
    \A g \in DOMAIN groups :
        LET total == FromInt(TotalOf(groups[g]))
            sum == FSum(Scorer_init(shared, groups[g]), Dim)
            betas_sum == FSum(shared.betas, Dim)
            denom == FAdd(shared.alpha, total)
        IN /\ sum = FDiv(FAdd(FMul(shared.alpha, betas_sum), total), denom)
           /\ (shared.beta0 = <<0, 1>> /\ betas_sum = <<1, 1>>) =>
                  sum = <<1, 1>>
           /\ (betas_sum = FSub(<<1, 1>>, shared.beta0)) =>
                  sum = FSub(<<1, 1>>,
                             FDiv(FMul(shared.alpha, shared.beta0), denom))

ScorerNormalizationWitness ==
    /\ last.op = "score_value.group"
    /\ shared.beta0 # <<0, 1>>
    /\ TotalOf(groups[last.groupid]) = MaxGroupTotal

\* ------------------------------------------------------- contract checking
\* DIST_ASSERT is always on, DIST_ASSERT1 and DIST_ASSERT2 are compiled in
\* when DIST_DEBUG_LEVEL is at least 1 and 2.  A call ends in one of
\*   "returned"  the call ran to its end,
\*   "fatal"     a contract check failed and aborted the call,
\*   "crash"     undefined behaviour: the out-of-bounds access trapped,
\*   "corrupt"   undefined behaviour: the access hit foreign memory and the
\*               call returned.
\* Every outcome carries the Mixture and the buffer as they are at that point.
MaxDebugLevel == 2
MaxCheckedCount == 1   \* observations held while calls are checked

DebugLevels ==
    0..MaxDebugLevel

Compiled(level, need) ==
    level >= need

Outcome(status, M, accum) ==
    [status |-> status, M |-> M, accum |-> accum]

UndefinedOutcomes ==
    {"crash", "corrupt"}

\* what an out-of-bounds read may deliver
GarbageValues ==
    {FloatZero, [exp |-> <<1, 2>>]}

\* SparseCounter::remove fails on an absent key
SparseCounter_remove_fails(c, key) ==
    key \notin DOMAIN c.map

\* Group::remove_value that returns silently when the value is absent
Group_remove_value_call_silent(group, value) ==
    IF SparseCounter_remove_fails(group.counts, value)
    THEN [status |-> "returned", group |-> group]
    ELSE [status |-> "returned", group |-> Group_remove_value(group, value)]

Group_remove_value_call(group, value) ==
    IF SparseCounter_remove_fails(group.counts, value)
    THEN [status |-> "fatal", group |-> group]
    ELSE [status |-> "returned", group |-> Group_remove_value(group, value)]

Scorer_eval_call(scorer_scores, value) ==
    IF ~(value < VSize(scorer_scores))
    THEN [status |-> "fatal"]
    ELSE [status |-> "returned", result |-> Scorer_eval(scorer_scores, value)]

Mixture_remove_group_call(M, sh, groupid, level) ==
    IF Compiled(level, 1) /\ ~(groupid < VSize(M.groups))
    THEN {Outcome("fatal", M, NoArg)}
    ELSE IF ~(groupid < VSize(M.groups))
    THEN {Outcome(u, M, NoArg) : u \in UndefinedOutcomes}
    ELSE {Outcome("returned", Mixture_remove_group(M, sh, groupid), NoArg)}

Mixture_add_value_call(M, sh, groupid, value, level) ==
    IF Compiled(level, 1) /\ ~(groupid < VSize(M.groups))
    THEN {Outcome("fatal", M, NoArg)}
    ELSE IF Compiled(level, 1) /\ ~(value < VSize(sh.betas))
    THEN {Outcome("fatal", M, NoArg)}
    ELSE IF ~(groupid < VSize(M.groups))
    THEN {Outcome(u, M, NoArg) : u \in UndefinedOutcomes}
    ELSE IF ~(value < VSize(sh.betas))
    THEN LET counted == [M EXCEPT !.groups[groupid] =
                                      Group_add_value(@, value)]
         IN {Outcome(u, counted, NoArg) : u \in UndefinedOutcomes}
    ELSE {Outcome("returned", Mixture_add_value(M, sh, groupid, value),
                  NoArg)}

Mixture_remove_value_call(M, sh, groupid, value, level) ==
    IF Compiled(level, 2) /\ ~(groupid < VSize(M.groups))
    THEN {Outcome("fatal", M, NoArg)}
    ELSE IF Compiled(level, 1) /\ ~(value < VSize(sh.betas))
    THEN {Outcome("fatal", M, NoArg)}
    ELSE IF ~(groupid < VSize(M.groups))
    THEN {Outcome(u, M, NoArg) : u \in UndefinedOutcomes}
    ELSE IF SparseCounter_remove_fails(M.groups[groupid].counts, value)
    THEN {Outcome("fatal", M, NoArg)}
    ELSE IF ~(value < VSize(sh.betas))
    THEN LET removed == [M EXCEPT !.groups[groupid] =
                                      Group_remove_value(@, value)]
         IN {Outcome(u, removed, NoArg) : u \in UndefinedOutcomes}
    ELSE {Outcome("returned", Mixture_remove_value(M, sh, groupid, value),
                  NoArg)}

Mixture_score_value_call(M, sh, value, accum, level) ==
    IF Compiled(level, 1) /\ ~(value < VSize(sh.betas))
    THEN {Outcome("fatal", M, accum)}
    ELSE IF Compiled(level, 2) /\ VSize(accum) # VSize(M.groups)
    THEN {Outcome("fatal", M, accum)}
    ELSE IF ~(value < VSize(sh.betas))
    THEN {Outcome("crash", M, accum)}
             \cup {Outcome("corrupt", M, [g \in DOMAIN accum |-> x]) :
                      x \in GarbageValues}
    ELSE {Outcome("returned", M, Mixture_score_value(M, sh, value, accum))}

\* the record of a call; a call that did not return normally also reports
\* the debug level of the build
Checked(op, g, v, level, status) ==
    [op |-> op, groupid |-> g, value |-> v, draws |-> <<>>,
     level |-> IF status = "returned" THEN NoArg ELSE level,
     outcome |-> status]

CheckedOps ==
    {"remove_group", "add_value", "remove_value", "score_value",
     "Group.remove_value", "score_value.group"}

\* the process goes on only while no call has failed
Running ==
    last.op \in CheckedOps => last.outcome = "returned"

CallRemoveGroup(groupid, level) ==
    /\ Running /\ synced /\ BufferReleased
    /\ groupid <= VSize(groups)
    /\ \E out \in Mixture_remove_group_call(Mix, shared, groupid, level) :
           /\ SetMix(out.M)
           /\ last' = Checked("remove_group", groupid, NoArg, level,
                              out.status)
    /\ UNCHANGED <<shared, scores_accum, synced, external_ops, score_calls>>

CallAddValue(groupid, value, level) ==
    /\ Running /\ synced /\ BufferReleased
    /\ groupid <= VSize(groups)
    /\ Observations(groups, VSize(groups)) < MaxCheckedCount
    /\ \E out \in Mixture_add_value_call(Mix, shared, groupid, value, level) :
           /\ SetMix(out.M)
           /\ last' = Checked("add_value", groupid, value, level, out.status)
    /\ UNCHANGED <<shared, scores_accum, synced, external_ops, score_calls>>

CallRemoveValue(groupid, value, level) ==
    /\ Running /\ synced /\ BufferReleased
    /\ groupid <= VSize(groups)
    /\ \E out \in
           Mixture_remove_value_call(Mix, shared, groupid, value, level) :
           /\ SetMix(out.M)
           /\ last' = Checked("remove_value", groupid, value, level,
                              out.status)
    /\ UNCHANGED <<shared, scores_accum, synced, external_ops, score_calls>>

CallScoreValue(value, level) ==
    /\ Running /\ synced
    /\ last.op \in {"accum.alloc", "score_value"}
    /\ VSize(scores_accum) = VSize(groups)
    /\ score_calls < MaxScoreCalls
    /\ \E out \in
           Mixture_score_value_call(Mix, shared, value, scores_accum, level) :
           /\ scores_accum' = out.accum
           /\ last' = Checked("score_value", NoArg, value, level, out.status)
    /\ score_calls' = score_calls + 1
    /\ UNCHANGED <<shared, groups, scores, scores_shift, synced, external_ops>>

\* the owner calls Group::remove_value on a group of the Mixture
CallGroupRemove(groupid, value, level) ==
    /\ Running /\ BufferReleased
    /\ external_ops < MaxExternal
    /\ groupid \in DOMAIN groups
    /\ LET out == Group_remove_value_call(groups[groupid], value)
       IN /\ groups' = [groups EXCEPT ![groupid] = out.group]
          /\ synced' = (synced /\ out.status = "fatal")
          /\ external_ops' = IF out.status = "fatal" THEN external_ops
                                                     ELSE external_ops + 1
          /\ last' = Checked("Group.remove_value", groupid, value, level,
                             out.status)
    /\ UNCHANGED <<shared, scores, scores_shift, scores_accum, score_calls>>

\* the owner scores one value against a group: Scorer::init, Scorer::eval
CallScorerEval(groupid, value, level) ==
    /\ Running /\ QueryPoint
    /\ groupid \in DOMAIN groups
    /\ LET out == Scorer_eval_call(Scorer_init(shared, groups[groupid]),
                                   value)
       IN last' = Checked("score_value.group", groupid, value, level,
                          out.status)
    /\ UNCHANGED <<shared, groups, scores, scores_shift, scores_accum,
                   synced, external_ops, score_calls>>

FaultNext ==
    \/ Running /\ MixtureInit
    \/ Running /\ MixtureAddGroup
    \/ Running /\ AccumAlloc
    \/ Running /\ AccumRelease
    \/ \E g \in 0..MaxGroups, l \in DebugLevels : CallRemoveGroup(g, l)
    \/ \E g \in 0..MaxGroups, v \in 0..Dim, l \in DebugLevels :
           CallAddValue(g, v, l)
    \/ \E g \in 0..MaxGroups, v \in 0..Dim, l \in DebugLevels :
           CallRemoveValue(g, v, l)
    \/ \E v \in 0..Dim, l \in DebugLevels : CallScoreValue(v, l)
    \/ \E g \in 0..MaxGroups, v \in 0..Dim, l \in DebugLevels :
           CallGroupRemove(g, v, l)
    \/ \E g \in 0..MaxGroups, v \in 0..Dim, l \in DebugLevels :
           CallScorerEval(g, v, l)

FaultSpec == Init /\ [][FaultNext]_vars

\* C12: no group ever holds a negative or wrapped-around count; remove_value
\* of a value whose count in the group is zero, through Group.remove_value or
\* Mixture.remove_value, is a fatal contract violation that decrements
\* nothing.
NoNegativeCounts ==
    [][/\ \A g \in DOMAIN groups' :
              /\ TotalOf(groups'[g]) >= 0
              /\ \A v \in DOMAIN groups'[g].counts.map :
                     groups'[g].counts.map[v] >= 1
       /\ (/\ last'.op \in {"Group.remove_value", "remove_value"}
           /\ last'.groupid \in DOMAIN groups
           /\ CountOf(groups[last'.groupid], last'.value) = 0) =>
              /\ last'.outcome = "fatal"
              /\ groups' = groups]_vars

NoNegativeCountsWitness ==
    /\ last.op = "remove_value"
    /\ last.outcome = "fatal"
    /\ last.level = 0
    /\ last.groupid \in DOMAIN groups
    /\ last.value \in Values
    /\ TotalOf(groups[last.groupid]) > 0

\* C13: Mixture.remove_group, add_value and remove_value called with
\* groupid >= group_count, Mixture.add_value, remove_value and score_value
\* called with value >= dim, and Scorer.eval called with value >= dim all end
\* in a contract-violation failure, with groups, scores, scores_shift and the
\* caller's accum unchanged.
OutOfRangeIsFatal ==
    [][(/\ last'.op \in CheckedOps
        /\ \/ /\ last'.op \in {"remove_group", "add_value", "remove_value"}
              /\ last'.groupid >= VSize(groups)
           \/ /\ last'.op \in {"add_value", "remove_value", "score_value",
                               "score_value.group"}
              /\ last'.value >= Dim) =>
           /\ last'.outcome = "fatal"
           /\ groups' = groups
           /\ scores' = scores
           /\ scores_shift' = scores_shift
           /\ scores_accum' = scores_accum]_vars

====
